---- MODULE Spec2Model ----
(***************************************************************************)
(* Model of the IMAP invoice sync worker (src/src/workers/imap-worker.ts), *)
(* its IMAP helpers (src/src/services/imap.ts) and the store functions it  *)
(* calls (services/supabase, src/unnamed/part_001).                        *)
(*                                                                         *)
(* One action is the code that runs between two awaits of a background     *)
(* task: Node runs it without interleaving, and another task or an HTTP    *)
(* handler (cancelSync) can only run while the task is suspended.          *)
(*                                                                         *)
(* Text is modelled as a sequence of tokens (a word, "<", "@", ">"), so    *)
(* toLowerCase, includes and the domain regex are computed on tokens.      *)
(***************************************************************************)
EXTENDS Integers, Sequences, FiniteSets, TLC

VARIABLES
    accountsDb,    \* table email_accounts: id -> [last_processed_uid, status, error_message]
    syncLogs,      \* table sync_logs: run id -> row (status "none": no row)
    invoices,      \* table invoices: <<account, messageId, filename>> -> number of rows
    pendingLinks,  \* table pending_invoice_links: set of <<account, url>>
    activeSyncs,   \* keys of the Map activeSyncs
    syncState,     \* run id -> the syncState object of the task ({cancelled})
    pc,            \* call -> where the call / its background task is suspended
    loc,           \* call -> locals of startSync, processAccounts, processAccount
    faults,        \* number of failures of the mail transport so far
    storeFaults,   \* number of failures of the store so far
    fetched,       \* history: call -> the <<account, uid>> its run handed to fetchEmail
    fetchCount,    \* history: call -> number of fetchEmail calls of the run
    inserted       \* history: call -> number of invoice rows the run inserted

vars == <<accountsDb, syncLogs, invoices, pendingLinks, activeSyncs, syncState,
          pc, loc, faults, storeFaults, fetched, fetchCount, inserted>>

-----------------------------------------------------------------------------
(* Bounds of the model. *)

\* number of startSync calls made in one behaviour
MaxRuns == 2
\* number of failures (of the mail transport and of the store) in one behaviour
MaxFaults == 2

Runs == 1..MaxRuns

-----------------------------------------------------------------------------
(* The environment: accounts, rules and mailboxes. *)

Accounts == {"A", "B"}

\* rows of email_accounts in the order the store returns them
AccountRows == <<"A", "B">>

\* the parameters startSync is called with: accountId ("" is absent, "Z" is
\* the id of no account) and dateFrom (0 is absent)
StartParams ==
    { [accountId |-> "", dateFrom |-> 0], [accountId |-> "", dateFrom |-> 2],
      [accountId |-> "B", dateFrom |-> 0], [accountId |-> "Z", dateFrom |-> 2] }

\* rows of sync_rules
SyncRulesTable ==
    << [rule_type |-> "exclude", condition_type |-> "domain_equals",
        condition_value |-> <<"Newsletter.example.com">>, is_active |-> TRUE],
       [rule_type |-> "exclude", condition_type |-> "subject_contains",
        condition_value |-> <<"invoice">>, is_active |-> FALSE],
       [rule_type |-> "include", condition_type |-> "sender_contains",
        condition_value |-> <<"acme">>, is_active |-> TRUE] >>

\* A raw message of a mailbox as the parser sees it. urls are the matches of
\* the link patterns in the body, in order of appearance.
Msg(from, subject, text, messageId, attachments, urls, date) ==
    [from |-> from, subject |-> subject, text |-> text, messageId |-> messageId,
     attachments |-> attachments, urls |-> urls, date |-> date]

Att(filename, contentType) == [filename |-> filename, contentType |-> contentType]

\* Mailbox[a][uid]. A: an invoice with a PDF, an invoice of an excluded sender,
\* an irrelevant message, and a message with an older date that carries three
\* PDFs. B: old messages, irrelevant but for uid 5 that links
\* to an invoice and carries two PDFs, then a newer invoice with a PDF and a
\* download link.
Mailbox ==
    [a \in Accounts |->
       IF a = "A"
       THEN << Msg(<<"Acme", "<", "billing", "@", "acme.com", ">">>,
                   <<"Your", "Invoice", "#123">>, <<>>, "m1",
                   <<Att("inv.pdf", "application/pdf")>>, <<>>, 2),
               Msg(<<"Promo", "<", "offers", "@", "newsletter.example.com", ">">>,
                   <<"Receipt">>, <<>>, "m2",
                   <<Att("promo.PDF", "application/octet-stream")>>,
                   <<"http://n/invoice">>, 2),
               Msg(<<"bob", "@", "example.com">>,
                   <<"Lunch">>, <<"see", "you">>, "m3",
                   <<Att("photo.png", "image/png")>>, <<>>, 2),
               Msg(<<"Acme", "<", "billing", "@", "acme.com", ">">>,
                   <<"Statement">>, <<>>, "m4",
                   <<Att("c.pdf", "application/pdf"), Att("d.pdf", "application/pdf"),
                     Att("e.pdf", "application/pdf")>>, <<>>, 1) >>
       ELSE [uid \in 1..10 |->
               IF uid = 5
               THEN Msg(<<"Host", "<", "no-reply", "@", "host.com", ">">>,
                        <<"Payment", "due">>, <<"view", "your", "invoice">>, "m5",
                        <<Att("a.pdf", "application/pdf"), Att("b.pdf", "application/pdf")>>,
                        <<"http://h/invoice">>, 1)
               ELSE IF uid < 10
               THEN Msg(<<"bob", "@", "example.com">>,
                        <<"Lunch">>, <<"see", "you">>, "m0", <<>>, <<>>, 1)
               ELSE Msg(<<"Shop", "<", "pay", "@", "shop.com", ">">>,
                        <<"Order">>, <<"download", "your", "invoice">>, "m1",
                        <<Att("inv.pdf", "application/pdf"), Att("logo.png", "image/png")>>,
                        <<"http://s/invoice", "http://s/invoice">>, 2)]]

Uids(a) == 1..Len(Mailbox[a])

-----------------------------------------------------------------------------
(* Text helpers. *)

UpperTokens ==
    [t \in {"Acme", "Promo", "Your", "Invoice", "Receipt", "Lunch", "Shop", "Order",
            "Host", "Payment", "Statement", "Newsletter.example.com", "promo.PDF"} |->
       CASE t = "Acme" -> "acme" [] t = "Promo" -> "promo" [] t = "Your" -> "your"
         [] t = "Invoice" -> "invoice" [] t = "Receipt" -> "receipt"
         [] t = "Lunch" -> "lunch" [] t = "Shop" -> "shop" [] t = "Order" -> "order"
         [] t = "Host" -> "host" [] t = "Payment" -> "payment"
         [] t = "Statement" -> "statement"
         [] t = "Newsletter.example.com" -> "newsletter.example.com"
         [] t = "promo.PDF" -> "promo.pdf"]

toLowerCaseToken(t) == IF t \in DOMAIN UpperTokens THEN UpperTokens[t] ELSE t

toLowerCase(s) == [k \in 1..Len(s) |-> toLowerCaseToken(s[k])]

includes(s, v) ==
    \E k \in 0..(Len(s) - Len(v)) : SubSeq(s, k + 1, k + Len(v)) = v

\* filename?.toLowerCase().endsWith('.pdf')
endsWithPdf(filename) ==
    toLowerCaseToken(filename) \in
        {"inv.pdf", "promo.pdf", "a.pdf", "b.pdf", "c.pdf", "d.pdf", "e.pdf"}

\* from.match(/@([^>]+)/)?.[1] : the set holding the captured group, empty when
\* the pattern does not match
domainMatch(from) ==
    LET starts == {p \in 1..(Len(from) - 1) : from[p] = "@" /\ from[p + 1] # ">"}
    IN  IF starts = {} THEN {}
        ELSE LET p == CHOOSE q \in starts : \A q2 \in starts : q <= q2
                 stop == {e \in (p + 1)..Len(from) : from[e] = ">"}
                 last == IF stop = {} THEN Len(from)
                         ELSE (CHOOSE e \in stop : \A e2 \in stop : e <= e2) - 1
             IN  {SubSeq(from, p + 1, last)}

-----------------------------------------------------------------------------
(* services/imap.ts *)

invoiceKeywords ==
    { <<"invoice">>, <<"factura">>, <<"rechnung">>, <<"fattura">>, <<"facture">>,
      <<"receipt">>, <<"bill">>, <<"payment">>, <<"order", "confirmation">>,
      <<"your", "order">>, <<"purchase">>, <<"transaction">> }

\* /download.*invoice/i and the like: the first word, later the second
invoiceLinkPatterns ==
    { <<"download", "invoice">>, <<"view", "invoice">>, <<"invoice", "pdf">>,
      <<"get", "receipt">>, <<"download", "receipt">> }

isPdf(att) == att.contentType = "application/pdf" \/ endsWithPdf(att.filename)

mightContainInvoice(parsed) ==
    LET subject == toLowerCase(parsed.subject)
        from    == toLowerCase(parsed.from)
        text    == toLowerCase(parsed.text)
        hasPdfAttachment ==
            \E k \in 1..Len(parsed.attachments) : isPdf(parsed.attachments[k])
        hasInvoiceKeyword ==
            \E keyword \in invoiceKeywords :
                includes(subject, keyword) \/ includes(from, keyword)
    IN  \/ hasPdfAttachment
        \/ hasInvoiceKeyword
        \/ \E pattern \in invoiceLinkPatterns :
               \E x, y \in 1..Len(text) :
                   x < y /\ text[x] = pattern[1] /\ text[y] = pattern[2]

\* the elements of s that satisfy keep, in order
RECURSIVE pdfAttachments(_)
pdfAttachments(atts) ==
    IF atts = <<>> THEN <<>>
    ELSE IF isPdf(Head(atts))
         THEN <<Head(atts).filename>> \o pdfAttachments(Tail(atts))
         ELSE pdfAttachments(Tail(atts))

\* the urls in order, each once (foundUrls)
RECURSIVE dedupeUrls(_, _)
dedupeUrls(urls, found) ==
    IF urls = <<>> THEN <<>>
    ELSE IF Head(urls) \in found
         THEN dedupeUrls(Tail(urls), found)
         ELSE <<Head(urls)>> \o dedupeUrls(Tail(urls), found \cup {Head(urls)})

processEmail(parsed, uid) ==
    [uid |-> uid, subject |-> parsed.subject, from |-> parsed.from,
     messageId |-> parsed.messageId,
     attachments |-> pdfAttachments(parsed.attachments),
     invoiceLinks |-> dedupeUrls(parsed.urls, {})]

\* the value fetchEmail resolves to when it resolves null
Null == [null |-> TRUE]

\* fetchEmail, when the message is fetched and parsed
fetchEmail(a, uid) ==
    IF ~mightContainInvoice(Mailbox[a][uid]) THEN Null
    ELSE processEmail(Mailbox[a][uid], uid)

RECURSIVE insertSorted(_, _)
insertSorted(x, s) ==
    IF s = <<>> THEN <<x>>
    ELSE IF x - Head(s) <= 0 THEN <<x>> \o s
         ELSE <<Head(s)>> \o insertSorted(x, Tail(s))

\* faulty variant of sortAscending: the results are left in the order the
\* server returned them
sortAscendingOmitted(s) == s

\* results.sort((a, b) => a - b)
RECURSIVE sortAscending(_)
sortAscending(s) ==
    IF s = <<>> THEN <<>> ELSE insertSorted(Head(s), sortAscending(Tail(s)))

\* faulty variant of filterUids: the results of the search are not filtered
filterUidsOmitted(results, lastUid) == results

filterUids(results, lastUid) == SelectSeq(results, LAMBDA uid : uid > lastUid)

\* the callback of imap.search in searchEmails
searchEmails(results, lastUid) ==
    LET filteredResults == IF lastUid # 0 THEN filterUids(results, lastUid)
                           ELSE results
    IN  sortAscending(filteredResults)

\* What the server matches for the criteria searchEmails builds. The set of
\* a UID range n:* always holds the highest uid of the mailbox.
searchCriteriaMatch(a, dateFrom, lastUid) ==
    LET top == Len(Mailbox[a])
    IN  { uid \in Uids(a) :
            /\ dateFrom # 0 => Mailbox[a][uid].date >= dateFrom
            /\ lastUid > 0 => \/ uid >= lastUid + 1
                              \/ uid = top /\ lastUid + 1 > top }

RECURSIVE ascendingSeq(_)
ascendingSeq(S) ==
    IF S = {} THEN <<>>
    ELSE LET m == CHOOSE x \in S : \A y \in S : x <= y
         IN  <<m>> \o ascendingSeq(S \ {m})

reverseSeq(s) == [k \in 1..Len(s) |-> s[Len(s) + 1 - k]]

\* the orders in which the server may return the matching uids
searchResults(a, dateFrom, lastUid) ==
    LET asc == ascendingSeq(searchCriteriaMatch(a, dateFrom, lastUid))
    IN  {asc, reverseSeq(asc)}

-----------------------------------------------------------------------------
(* workers/imap-worker.ts: shouldSkipEmail *)

ruleMatches(rule, email) ==
    LET value == toLowerCase(rule.condition_value)
    IN  CASE rule.condition_type = "sender_contains" ->
                 includes(toLowerCase(email.from), value)
          [] rule.condition_type = "sender_equals" ->
                 toLowerCase(email.from) = value
          [] rule.condition_type = "subject_contains" ->
                 includes(toLowerCase(email.subject), value)
          [] rule.condition_type = "subject_equals" ->
                 toLowerCase(email.subject) = value
          [] rule.condition_type = "domain_equals" ->
                 \E domain \in domainMatch(email.from) : toLowerCase(domain) = value
          [] OTHER -> FALSE

\* faulty variant of shouldSkipEmail: the test of rule_type is inverted, so
\* the rules that are not exclude rules are the ones applied
shouldSkipEmailTypeInverted(email, rules) ==
    \E k \in 1..Len(rules) :
        rules[k].rule_type # "exclude" /\ ruleMatches(rules[k], email)

shouldSkipEmail(email, rules) ==
    \E k \in 1..Len(rules) :
        rules[k].rule_type = "exclude" /\ ruleMatches(rules[k], email)

-----------------------------------------------------------------------------
(* services/supabase *)

getEmailAccounts(accountId) ==
    LET ids == IF accountId # "" THEN SelectSeq(AccountRows, LAMBDA id : id = accountId)
               ELSE AccountRows
    IN  [k \in 1..Len(ids) |->
           [id |-> ids[k], last_processed_uid |-> accountsDb[ids[k]].last_processed_uid]]

\* faulty variant of getSyncRules: the filter .eq('is_active', true) is missing
getSyncRulesAnyActivity == SyncRulesTable

getSyncRules == SelectSeq(SyncRulesTable, LAMBDA rule : rule.is_active)

NoRow ==
    [status |-> "none", total_accounts |-> 0, processed_accounts |-> 0,
     total_invoices |-> 0, emails_processed_so_far |-> 0,
     total_emails_to_process |-> 0, current_account_email |-> "", completed_at |-> FALSE]

createSyncLog(totalAccounts) ==
    [NoRow EXCEPT !.status = "running", !.total_accounts = totalAccounts]

\* faulty variant of updateSyncLog: the filter .eq('id', id) is missing, so
\* every row of the table is updated
updateSyncLogEveryRow(id, updates) ==
    [q \in DOMAIN syncLogs |->
        IF syncLogs[q].status = "none" THEN syncLogs[q]
        ELSE [f \in DOMAIN syncLogs[q] |->
                 IF f \in DOMAIN updates THEN updates[f] ELSE syncLogs[q][f]]]

\* the table after .update(updates).eq('id', id)
updateSyncLog(id, updates) ==
    [syncLogs EXCEPT ![id] =
        IF @.status = "none" THEN @
        ELSE [f \in DOMAIN @ |-> IF f \in DOMAIN updates THEN updates[f] ELSE @[f]]]

updateAccountStatus(accountId, status, errorMessage) ==
    [accountsDb EXCEPT ![accountId].status = status,
                       ![accountId].error_message = errorMessage]

updateAccountLastUid(accountId, uid) ==
    [accountsDb EXCEPT ![accountId].last_processed_uid = uid]

\* faulty variant of checkDuplicateInvoice: the row is never found
checkDuplicateInvoiceNeverFound(emailAccountId, emailMessageId, filename) == "new"

\* maybeSingle(): "new" without a row, "duplicate" with one, an error with more
checkDuplicateInvoice(emailAccountId, emailMessageId, filename) ==
    LET n == invoices[<<emailAccountId, emailMessageId, filename>>]
    IN  IF n = 0 THEN "new" ELSE IF n = 1 THEN "duplicate" ELSE "error"

insertInvoice(emailAccountId, emailMessageId, filename) ==
    [invoices EXCEPT ![<<emailAccountId, emailMessageId, filename>>] = @ + 1]

\* a duplicate row is refused by the table and the error swallowed
insertPendingLink(emailAccountId, detectedUrl) ==
    pendingLinks \cup {<<emailAccountId, detectedUrl>>}

-----------------------------------------------------------------------------
(* The calls and their background tasks. pc[r] names the call the task is    *)
(* awaiting; "idle": startSync not called yet, "rejected": startSync threw,  *)
(* "done": processAccounts has ended, "crashed": it ended by an error        *)
(* thrown outside its try.                                                   *)

NoLocals ==
    [accountId |-> "", dateFrom |-> 0, accounts |-> <<>>, rules |-> <<>>, i |-> 0,
     totalInvoices |-> 0, totalEmailsProcessed |-> 0,
     imap |-> "none", uids |-> <<>>, uid |-> 0, emailsProcessed |-> 0,
     invoicesFound |-> 0, email |-> Null, attachments |-> <<>>, invoiceLinks |-> <<>>,
     err |-> ""]

Ended == {"idle", "rejected", "done", "crashed"}

InvoiceKeys ==
    UNION { UNION { { <<a, Mailbox[a][u].messageId, Mailbox[a][u].attachments[k].filename>> :
                        k \in DOMAIN Mailbox[a][u].attachments } : u \in Uids(a) } :
            a \in Accounts }

Init ==
    /\ accountsDb = [a \in Accounts |->
                        [last_processed_uid |-> 0, status |-> "new", error_message |-> ""]]
    /\ syncLogs = [r \in Runs |-> NoRow]
    /\ invoices = [key \in InvoiceKeys |-> 0]
    /\ pendingLinks = {}
    /\ activeSyncs = {}
    /\ syncState = [r \in Runs |-> [cancelled |-> FALSE]]
    /\ pc = [r \in Runs |-> "idle"]
    /\ loc = [r \in Runs |-> NoLocals]
    /\ faults = 0
    /\ storeFaults = 0
    /\ fetched = [r \in Runs |-> {}]
    /\ fetchCount = [r \in Runs |-> 0]
    /\ inserted = [r \in Runs |-> 0]

-----------------------------------------------------------------------------
(* Control flow of processAccounts and processAccount between two awaits. *)

\* accounts[i]
account(l) == l.accounts[l.i + 1]

\* faulty variant of accountLoop: the cancel flag is not read
accountLoopNoCancelCheck(r, l) ==
    IF l.i < Len(l.accounts) THEN [pc |-> "logAccount", loc |-> l]
    ELSE [pc |-> "logCompleted", loc |-> l]

\* processAccounts at the head of its for statement: the cancellation check
\* and the call it makes next (lines 73-89, 116)
accountLoop(r, l) ==
    IF l.i < Len(l.accounts)
    THEN IF syncState[r].cancelled THEN [pc |-> "logCancelled", loc |-> l]
         ELSE [pc |-> "logAccount", loc |-> l]
    ELSE [pc |-> "logCompleted", loc |-> l]

scanLocalsDropped(l) ==
    [l EXCEPT !.imap = "ended", !.uids = <<>>, !.uid = 0, !.emailsProcessed = 0,
              !.invoicesFound = 0, !.email = Null, !.attachments = <<>>,
              !.invoiceLinks = <<>>]

\* faulty variant of scanReturns: the counts of the account replace the
\* running totals instead of being added to them
scanReturnsAssigns(l) ==
    [pc |-> "logTotals",
     loc |-> [scanLocalsDropped(l) EXCEPT
                !.totalInvoices = l.invoicesFound,
                !.totalEmailsProcessed = l.emailsProcessed]]

\* processAccount returns: finally disconnectImap, then lines 101-104
scanReturns(l) ==
    [pc |-> "logTotals",
     loc |-> [scanLocalsDropped(l) EXCEPT
                !.totalInvoices = @ + l.invoicesFound,
                !.totalEmailsProcessed = @ + l.emailsProcessed]]

\* faulty variant of scanThrows: processAccounts has no catch around the
\* scan of an account, so the error reaches the catch of the whole loop
scanThrowsToOuterCatch(l) == [pc |-> "logFailed", loc |-> scanLocalsDropped(l)]

\* faulty variant of scanThrows: disconnectImap is called only at the normal
\* end of processAccount, not in a finally
scanThrowsKeepsConnection(l) ==
    [pc |-> "statusError", loc |-> [scanLocalsDropped(l) EXCEPT !.imap = l.imap]]

\* processAccount throws: finally disconnectImap, then the catch at 110-112
scanThrows(l) == [pc |-> "statusError", loc |-> scanLocalsDropped(l)]

\* faulty variant of messageLoop: the cancel flag is not read
messageLoopNoCancelBreak(r, l) ==
    IF l.uids = <<>>
    THEN scanReturns(l)
    ELSE [pc |-> "fetchEmail",
          loc |-> [l EXCEPT !.uid = Head(l.uids), !.uids = Tail(l.uids),
                            !.email = Null, !.attachments = <<>>,
                            !.invoiceLinks = <<>>]]

\* processAccount at the head of its for statement (lines 166-170)
messageLoop(r, l) ==
    IF l.uids = <<>> \/ syncState[r].cancelled
    THEN scanReturns(l)
    ELSE [pc |-> "fetchEmail",
          loc |-> [l EXCEPT !.uid = Head(l.uids), !.uids = Tail(l.uids),
                            !.email = Null, !.attachments = <<>>,
                            !.invoiceLinks = <<>>]]

\* after the attachments: the links, then the cursor (lines 224-237)
linkLoop(l) ==
    IF l.invoiceLinks # <<>> THEN [pc |-> "insertPendingLink", loc |-> l]
    ELSE [pc |-> "updateAccountLastUid", loc |-> l]

\* the for statement over email.attachments (lines 182-187)
attachmentLoop(l) ==
    IF l.attachments # <<>> THEN [pc |-> "checkDuplicateInvoice", loc |-> l]
    ELSE linkLoop(l)

\* the task goes on to the call `to.pc` with the locals `to.loc`
Goto(r, to) ==
    /\ pc' = [pc EXCEPT ![r] = to.pc]
    /\ loc' = [loc EXCEPT ![r] = to.loc]
    /\ fetched' = IF to.pc = "fetchEmail"
                  THEN [fetched EXCEPT ![r] = @ \cup {<<account(to.loc).id, to.loc.uid>>}]
                  ELSE fetched
    /\ fetchCount' = IF to.pc = "fetchEmail"
                     THEN [fetchCount EXCEPT ![r] = @ + 1]
                     ELSE fetchCount

\* processAccounts ends: finally activeSyncs.delete
TaskEnds(r) ==
    /\ activeSyncs' = activeSyncs \ {r}
    /\ pc' = [pc EXCEPT ![r] = "done"]
    /\ UNCHANGED <<loc, fetched, fetchCount>>

-----------------------------------------------------------------------------
(* startSync and cancelSync *)

\* startSync is called: it awaits getEmailAccounts (line 41)
StartSync(r, params) ==
    /\ pc[r] = "idle"
    /\ \A q \in Runs : q < r => pc[q] # "idle"
    /\ pc' = [pc EXCEPT ![r] = "getEmailAccounts"]
    /\ loc' = [loc EXCEPT ![r] = [NoLocals EXCEPT !.accountId = params.accountId,
                                                  !.dateFrom = params.dateFrom]]
    /\ UNCHANGED <<accountsDb, syncLogs, invoices, pendingLinks, activeSyncs,
                   syncState, faults, storeFaults, fetched, fetchCount, inserted>>

\* faulty variant of GetEmailAccounts: the test of accounts.length is missing
GetEmailAccountsNoLengthTest(r) ==
    /\ pc[r] = "getEmailAccounts"
    /\ pc' = [pc EXCEPT ![r] = "createSyncLog"]
    /\ loc' = [loc EXCEPT ![r].accounts = getEmailAccounts(loc[r].accountId)]
    /\ UNCHANGED <<accountsDb, syncLogs, invoices, pendingLinks, activeSyncs,
                   syncState, faults, storeFaults, fetched, fetchCount, inserted>>

\* getEmailAccounts returns: lines 43-47
GetEmailAccounts(r) ==
    /\ pc[r] = "getEmailAccounts"
    /\ LET accounts == getEmailAccounts(loc[r].accountId)
       IN  IF Len(accounts) = 0
           THEN /\ pc' = [pc EXCEPT ![r] = "rejected"]
                /\ loc' = [loc EXCEPT ![r] = NoLocals]
           ELSE /\ pc' = [pc EXCEPT ![r] = "createSyncLog"]
                /\ loc' = [loc EXCEPT ![r].accounts = accounts]
    /\ UNCHANGED <<accountsDb, syncLogs, invoices, pendingLinks, activeSyncs,
                   syncState, faults, storeFaults, fetched, fetchCount, inserted>>

\* faulty variant of CreateSyncLog: processAccounts enters the run in the
\* registry only after its first await, so startSync returns before it
CreateSyncLogRegistersLater(r) ==
    /\ pc[r] = "createSyncLog"
    /\ syncLogs' = [syncLogs EXCEPT ![r] = createSyncLog(Len(loc[r].accounts))]
    /\ syncState' = [syncState EXCEPT ![r] = [cancelled |-> FALSE]]
    /\ pc' = [pc EXCEPT ![r] = "getSyncRules"]
    /\ UNCHANGED <<accountsDb, invoices, pendingLinks, activeSyncs, loc, faults,
                   storeFaults, fetched, fetchCount, inserted>>

\* createSyncLog returns: line 54 calls processAccounts, which runs to its
\* first await (lines 65-68); startSync then returns the id
CreateSyncLog(r) ==
    /\ pc[r] = "createSyncLog"
    /\ syncLogs' = [syncLogs EXCEPT ![r] = createSyncLog(Len(loc[r].accounts))]
    /\ syncState' = [syncState EXCEPT ![r] = [cancelled |-> FALSE]]
    /\ activeSyncs' = activeSyncs \cup {r}
    /\ pc' = [pc EXCEPT ![r] = "getSyncRules"]
    /\ UNCHANGED <<accountsDb, invoices, pendingLinks, loc, faults, storeFaults, fetched,
                   fetchCount, inserted>>

\* the value cancelSync(syncLogId) returns
cancelSyncReturns(syncLogId) == syncLogId \in activeSyncs

\* cancelSync(syncLogId), lines 27-34
CancelSync(syncLogId) ==
    /\ syncState' = IF cancelSyncReturns(syncLogId)
                    THEN [syncState EXCEPT ![syncLogId].cancelled = TRUE]
                    ELSE syncState
    /\ UNCHANGED <<accountsDb, syncLogs, invoices, pendingLinks, activeSyncs, pc,
                   loc, faults, storeFaults, fetched, fetchCount, inserted>>

-----------------------------------------------------------------------------
(* processAccounts *)

\* getSyncRules returns: lines 69-74
GetSyncRules(r) ==
    /\ pc[r] = "getSyncRules"
    /\ Goto(r, accountLoop(r, [loc[r] EXCEPT !.rules = getSyncRules, !.i = 0,
                                             !.totalInvoices = 0,
                                             !.totalEmailsProcessed = 0]))
    /\ UNCHANGED <<accountsDb, syncLogs, invoices, pendingLinks, activeSyncs,
                   syncState, faults, storeFaults, inserted>>

\* the update of lines 75-79 returns: return, finally
LogCancelled(r) ==
    /\ pc[r] = "logCancelled"
    /\ syncLogs' = updateSyncLog(r, [status |-> "cancelled", completed_at |-> TRUE])
    /\ TaskEnds(r)
    /\ UNCHANGED <<accountsDb, invoices, pendingLinks, syncState, faults, storeFaults, inserted>>

\* the update of lines 85-89 returns: processAccount is called and runs to
\* connectImap (lines 142-147)
LogAccount(r) ==
    /\ pc[r] = "logAccount"
    /\ syncLogs' = updateSyncLog(r, [current_account_email |-> account(loc[r]).id,
                                     processed_accounts |-> loc[r].i])
    /\ Goto(r, [pc |-> "connectImap",
                loc |-> [loc[r] EXCEPT !.imap = "created", !.emailsProcessed = 0,
                                       !.invoicesFound = 0]])
    /\ UNCHANGED <<accountsDb, invoices, pendingLinks, activeSyncs, syncState,
                   faults, storeFaults, inserted>>

\* the update of lines 104-107 returns: line 109
LogTotals(r) ==
    /\ pc[r] = "logTotals"
    /\ syncLogs' = updateSyncLog(r, [total_invoices |-> loc[r].totalInvoices,
                                     emails_processed_so_far |->
                                         loc[r].totalEmailsProcessed])
    /\ Goto(r, [pc |-> "statusConnected", loc |-> loc[r]])
    /\ UNCHANGED <<accountsDb, invoices, pendingLinks, activeSyncs, syncState,
                   faults, storeFaults, inserted>>

\* updateAccountStatus(account.id, 'connected') returns: i++, line 73
StatusConnected(r) ==
    /\ pc[r] = "statusConnected"
    /\ accountsDb' = updateAccountStatus(account(loc[r]).id, "connected", "")
    /\ Goto(r, accountLoop(r, [loc[r] EXCEPT !.i = @ + 1]))
    /\ UNCHANGED <<syncLogs, invoices, pendingLinks, activeSyncs, syncState,
                   faults, storeFaults, inserted>>

\* updateAccountStatus(account.id, 'error', err.message) returns: i++, line 73
StatusError(r) ==
    /\ pc[r] = "statusError"
    /\ accountsDb' = updateAccountStatus(account(loc[r]).id, "error", loc[r].err)
    /\ Goto(r, accountLoop(r, [loc[r] EXCEPT !.i = @ + 1, !.err = ""]))
    /\ UNCHANGED <<syncLogs, invoices, pendingLinks, activeSyncs, syncState,
                   faults, storeFaults, inserted>>

\* the update of lines 116-121 returns: finally
LogCompleted(r) ==
    /\ pc[r] = "logCompleted"
    /\ syncLogs' = updateSyncLog(r, [status |-> "completed",
                                     processed_accounts |-> Len(loc[r].accounts),
                                     completed_at |-> TRUE])
    /\ TaskEnds(r)
    /\ UNCHANGED <<accountsDb, invoices, pendingLinks, syncState, faults, storeFaults, inserted>>

\* the update of lines 124-128 returns: finally
LogFailed(r) ==
    /\ pc[r] = "logFailed"
    /\ syncLogs' = updateSyncLog(r, [status |-> "failed", completed_at |-> TRUE])
    /\ TaskEnds(r)
    /\ UNCHANGED <<accountsDb, invoices, pendingLinks, syncState, faults, storeFaults, inserted>>

-----------------------------------------------------------------------------
(* processAccount *)

\* connectImap resolves: line 148
ConnectImap(r) ==
    /\ pc[r] = "connectImap"
    /\ Goto(r, [pc |-> "openInbox", loc |-> [loc[r] EXCEPT !.imap = "connected"]])
    /\ UNCHANGED <<accountsDb, syncLogs, invoices, pendingLinks, activeSyncs,
                   syncState, faults, storeFaults, inserted>>

\* openInbox resolves: lines 150-158
OpenInbox(r) ==
    /\ pc[r] = "openInbox"
    /\ Goto(r, [pc |-> "searchEmails", loc |-> loc[r]])
    /\ UNCHANGED <<accountsDb, syncLogs, invoices, pendingLinks, activeSyncs,
                   syncState, faults, storeFaults, inserted>>

\* the server answers the search with results, in some order: lines 160-164
SearchEmails(r) ==
    /\ pc[r] = "searchEmails"
    /\ \E results \in searchResults(account(loc[r]).id, loc[r].dateFrom,
                                    account(loc[r]).last_processed_uid) :
           Goto(r, [pc |-> "logTotal",
                    loc |-> [loc[r] EXCEPT !.uids =
                               searchEmails(results,
                                            account(loc[r]).last_processed_uid)]])
    /\ UNCHANGED <<accountsDb, syncLogs, invoices, pendingLinks, activeSyncs,
                   syncState, faults, storeFaults, inserted>>

\* the update of lines 162-164 returns: line 166
LogTotal(r) ==
    /\ pc[r] = "logTotal"
    /\ syncLogs' = updateSyncLog(r, [total_emails_to_process |-> Len(loc[r].uids)])
    /\ Goto(r, messageLoop(r, loc[r]))
    /\ UNCHANGED <<accountsDb, invoices, pendingLinks, activeSyncs, syncState,
                   faults, storeFaults, inserted>>

\* faulty variant of emailFetched: emailsProcessed is incremented after the
\* test of the value fetchEmail resolved to
emailFetchedCountsAfterNullTest(r, email) ==
    IF email = Null THEN messageLoop(r, loc[r])
    ELSE LET l == [loc[r] EXCEPT !.emailsProcessed = @ + 1]
         IN  IF shouldSkipEmail(email, l.rules) THEN messageLoop(r, l)
             ELSE attachmentLoop([l EXCEPT !.email = email,
                                           !.attachments = email.attachments,
                                           !.invoiceLinks = email.invoiceLinks])

\* lines 171-187 with the value fetchEmail resolved to
emailFetched(r, email) ==
    LET l == [loc[r] EXCEPT !.emailsProcessed = @ + 1]
    IN  IF email = Null THEN messageLoop(r, l)
        ELSE IF shouldSkipEmail(email, l.rules) THEN messageLoop(r, l)
        ELSE attachmentLoop([l EXCEPT !.email = email,
                                      !.attachments = email.attachments,
                                      !.invoiceLinks = email.invoiceLinks])

\* fetchEmail resolves with the message fetched and parsed
FetchEmail(r) ==
    /\ pc[r] = "fetchEmail"
    /\ Goto(r, emailFetched(r, fetchEmail(account(loc[r]).id, loc[r].uid)))
    /\ UNCHANGED <<accountsDb, syncLogs, invoices, pendingLinks, activeSyncs,
                   syncState, faults, storeFaults, inserted>>

\* fetchEmail resolves null after a fetch error or a parse error
\* (imap.ts lines 79-89)
FetchEmailFails(r) ==
    /\ pc[r] = "fetchEmail"
    /\ faults + storeFaults < MaxFaults
    /\ faults' = faults + 1
    /\ storeFaults' = storeFaults
    /\ Goto(r, emailFetched(r, Null))
    /\ UNCHANGED <<accountsDb, syncLogs, invoices, pendingLinks, activeSyncs,
                   syncState, inserted>>

\* checkDuplicateInvoice returns: lines 189-201
CheckDuplicateInvoice(r) ==
    /\ pc[r] = "checkDuplicateInvoice"
    /\ LET isDuplicate == checkDuplicateInvoice(account(loc[r]).id,
                                                loc[r].email.messageId,
                                                Head(loc[r].attachments))
       IN  Goto(r, CASE isDuplicate = "duplicate" ->
                          attachmentLoop([loc[r] EXCEPT !.attachments = Tail(@)])
                     [] isDuplicate = "new" ->
                          [pc |-> "uploadToStorage", loc |-> loc[r]]
                     [] OTHER -> messageLoop(r, loc[r]))
    /\ UNCHANGED <<accountsDb, syncLogs, invoices, pendingLinks, activeSyncs,
                   syncState, faults, storeFaults, inserted>>

\* uploadToStorage returns: line 204
UploadToStorage(r) ==
    /\ pc[r] = "uploadToStorage"
    /\ Goto(r, [pc |-> "insertInvoice", loc |-> loc[r]])
    /\ UNCHANGED <<accountsDb, syncLogs, invoices, pendingLinks, activeSyncs,
                   syncState, faults, storeFaults, inserted>>

\* insertInvoice returns: lines 219-221
InsertInvoice(r) ==
    /\ pc[r] = "insertInvoice"
    /\ invoices' = insertInvoice(account(loc[r]).id, loc[r].email.messageId,
                                 Head(loc[r].attachments))
    /\ inserted' = [inserted EXCEPT ![r] = @ + 1]
    /\ Goto(r, attachmentLoop([loc[r] EXCEPT !.invoicesFound = @ + 1,
                                             !.attachments = Tail(@)]))
    /\ UNCHANGED <<accountsDb, syncLogs, pendingLinks, activeSyncs, syncState,
                   faults, storeFaults>>

\* insertPendingLink returns: lines 224-237
InsertPendingLink(r) ==
    /\ pc[r] = "insertPendingLink"
    /\ pendingLinks' = insertPendingLink(account(loc[r]).id, Head(loc[r].invoiceLinks))
    /\ Goto(r, linkLoop([loc[r] EXCEPT !.invoiceLinks = Tail(@)]))
    /\ UNCHANGED <<accountsDb, syncLogs, invoices, activeSyncs, syncState, faults, storeFaults,
                   inserted>>

\* emailsProcessed % 10 === 0
progressDue(emailsProcessed) == emailsProcessed % 10 = 0

\* updateAccountLastUid returns: lines 240-245
UpdateAccountLastUid(r) ==
    /\ pc[r] = "updateAccountLastUid"
    /\ accountsDb' = updateAccountLastUid(account(loc[r]).id, loc[r].uid)
    /\ Goto(r, IF progressDue(loc[r].emailsProcessed)
               THEN [pc |-> "logProgress", loc |-> loc[r]]
               ELSE messageLoop(r, loc[r]))
    /\ UNCHANGED <<syncLogs, invoices, pendingLinks, activeSyncs, syncState, faults, storeFaults,
                   inserted>>

\* the update of lines 241-244 returns: line 166
LogProgress(r) ==
    /\ pc[r] = "logProgress"
    /\ syncLogs' = updateSyncLog(r, [emails_processed_so_far |-> loc[r].emailsProcessed,
                                     total_invoices |-> loc[r].invoicesFound])
    /\ Goto(r, messageLoop(r, loc[r]))
    /\ UNCHANGED <<accountsDb, invoices, pendingLinks, activeSyncs, syncState,
                   faults, storeFaults, inserted>>

-----------------------------------------------------------------------------
(* Failures of the environment. *)

\* connectImap, openInbox or searchEmails rejects: finally, then the catch of
\* processAccounts (lines 110-112)
TransportThrows(r) ==
    /\ pc[r] \in {"connectImap", "openInbox", "searchEmails"}
    /\ faults + storeFaults < MaxFaults
    /\ faults' = faults + 1
    /\ storeFaults' = storeFaults
    /\ Goto(r, scanThrows([loc[r] EXCEPT !.err = "transport"]))
    /\ UNCHANGED <<accountsDb, syncLogs, invoices, pendingLinks, activeSyncs,
                   syncState, inserted>>

\* where the task goes on when the store call it awaits throws
catchOf(r) ==
    CASE pc[r] \in {"getEmailAccounts", "createSyncLog"} ->
             [pc |-> "rejected", loc |-> NoLocals]
      [] pc[r] = "getSyncRules" ->
             [pc |-> "crashed", loc |-> loc[r]]
      [] pc[r] \in {"logCancelled", "logAccount", "logCompleted", "statusError"} ->
             [pc |-> "logFailed", loc |-> loc[r]]
      [] pc[r] = "logTotal" ->
             scanThrows([loc[r] EXCEPT !.err = "store"])
      [] pc[r] \in {"checkDuplicateInvoice", "uploadToStorage", "insertInvoice",
                    "insertPendingLink", "updateAccountLastUid", "logProgress"} ->
             messageLoop(r, loc[r])
      [] pc[r] \in {"logTotals", "statusConnected"} ->
             [pc |-> "statusError", loc |-> [loc[r] EXCEPT !.err = "store"]]

StoreCalls ==
    {"getEmailAccounts", "createSyncLog", "getSyncRules", "logCancelled",
     "logAccount", "logCompleted", "statusError", "logTotal",
     "checkDuplicateInvoice", "uploadToStorage", "insertInvoice",
     "insertPendingLink", "updateAccountLastUid", "logProgress", "logTotals",
     "statusConnected"}

\* a store or blob call throws (if (error) throw error)
StoreThrows(r) ==
    /\ pc[r] \in StoreCalls
    /\ faults + storeFaults < MaxFaults
    /\ storeFaults' = storeFaults + 1
    /\ faults' = faults
    /\ Goto(r, catchOf(r))
    /\ UNCHANGED <<accountsDb, syncLogs, invoices, pendingLinks, activeSyncs,
                   syncState, inserted>>

\* the update of lines 124-128 throws inside the catch: finally
LogFailedThrows(r) ==
    /\ pc[r] = "logFailed"
    /\ faults + storeFaults < MaxFaults
    /\ storeFaults' = storeFaults + 1
    /\ faults' = faults
    /\ TaskEnds(r)
    /\ UNCHANGED <<accountsDb, syncLogs, invoices, pendingLinks, syncState,
                   inserted>>

-----------------------------------------------------------------------------
(* Specifications. *)

\* no background task is running
Quiescent == \A r \in Runs : pc[r] \in Ended

TaskStep(r) ==
    \/ GetEmailAccounts(r)
    \/ CreateSyncLog(r)
    \/ GetSyncRules(r)
    \/ LogCancelled(r)
    \/ LogAccount(r)
    \/ LogTotals(r)
    \/ StatusConnected(r)
    \/ StatusError(r)
    \/ LogCompleted(r)
    \/ ConnectImap(r)
    \/ OpenInbox(r)
    \/ SearchEmails(r)
    \/ LogTotal(r)
    \/ FetchEmail(r)
    \/ FetchEmailFails(r)
    \/ CheckDuplicateInvoice(r)
    \/ UploadToStorage(r)
    \/ InsertInvoice(r)
    \/ InsertPendingLink(r)
    \/ UpdateAccountLastUid(r)
    \/ LogProgress(r)
    \/ TransportThrows(r)

\* one sync at a time, the store never fails
NextStoreOk ==
    \/ \E r \in Runs, params \in StartParams : Quiescent /\ StartSync(r, params)
    \/ \E syncLogId \in Runs : CancelSync(syncLogId)
    \/ \E r \in Runs : TaskStep(r)

\* one sync at a time
Next ==
    \/ NextStoreOk
    \/ \E r \in Runs : StoreThrows(r)
    \/ \E r \in Runs : LogFailed(r)
    \/ \E r \in Runs : LogFailedThrows(r)

Spec == Init /\ [][Next]_vars

SpecStoreOk == Init /\ [][NextStoreOk]_vars

\* a step of a task none of whose calls fails
TaskStepNoFailure(r) ==
    \/ GetEmailAccounts(r)
    \/ CreateSyncLog(r)
    \/ GetSyncRules(r)
    \/ LogAccount(r)
    \/ LogTotals(r)
    \/ StatusConnected(r)
    \/ LogCompleted(r)
    \/ ConnectImap(r)
    \/ OpenInbox(r)
    \/ SearchEmails(r)
    \/ LogTotal(r)
    \/ FetchEmail(r)
    \/ CheckDuplicateInvoice(r)
    \/ UploadToStorage(r)
    \/ InsertInvoice(r)
    \/ InsertPendingLink(r)
    \/ UpdateAccountLastUid(r)
    \/ LogProgress(r)

\* startSync is called whether or not another sync is running (nothing in
\* startSync or in the route refuses it); no call fails and no cancellation
\* is requested
NextOverlap ==
    \/ \E r \in Runs, params \in StartParams : StartSync(r, params)
    \/ \E r \in Runs : TaskStepNoFailure(r)

SpecOverlap == Init /\ [][NextOverlap]_vars

-----------------------------------------------------------------------------
(* Properties. *)

\* the run of call r has a snapshot of its accounts
Running(r) == pc[r] \notin Ended /\ loc[r].accounts # <<>>

\* fetchEmail calls the task has counted: the scans that returned and the
\* scan in progress
counted(r) == loc[r].totalEmailsProcessed + loc[r].emailsProcessed

\* the candidate positions of the scan in progress: the positions in the
\* date range that lie above the cursor the scan started from
candidates(r) ==
    { uid \in searchCriteriaMatch(account(loc[r]).id, loc[r].dateFrom,
                                  account(loc[r]).last_processed_uid) :
        uid > account(loc[r]).last_processed_uid }

cursor(a) == accountsDb[a].last_processed_uid

\* the scan of accounts[i] has ended and accounts[i + 1] has not been started
betweenAccounts(r) ==
    /\ pc[r] \in {"logTotals", "statusConnected", "statusError"}
    /\ loc[r].i + 1 < Len(loc[r].accounts)

cancelPending(r) ==
    /\ syncState[r].cancelled
    /\ betweenAccounts(r) \/ pc[r] = "logCancelled"

finalizedCancelled(r) == pc[r] = "done" /\ syncLogs[r].status = "cancelled"

noScanStep(r) ==
    /\ fetched'[r] = fetched[r]
    /\ loc'[r].imap = loc[r].imap
    /\ loc'[r].imap \notin {"created", "connected"}

scanCandidates(r, j) ==
    { uid \in searchCriteriaMatch(loc[r].accounts[j].id, loc[r].dateFrom,
                                  loc[r].accounts[j].last_processed_uid) :
        uid > loc[r].accounts[j].last_processed_uid }

\* the scan of accounts[j - 1] fetched all its candidates
scanCompleted(r, j) ==
    \A uid \in scanCandidates(r, j) : <<loc[r].accounts[j].id, uid>> \in fetched[r]

noFailure == faults = 0 /\ storeFaults = 0

\* C2: (no call failing) a run finalized as cancelled at the check before
\* accounts[k], after the scans of the k accounts before it completed, has
\* processed_accounts = k in its row.
C2_ProcessedAccountsWhenCancelled ==
    \A r \in Runs :
        /\ finalizedCancelled(r) /\ noFailure
        /\ \A j \in 1..loc[r].i : scanCompleted(r, j)
        => syncLogs[r].processed_accounts = loc[r].i

\* C3: (no call failing) the account loop ends, and the task goes on to write
\* status=completed, only when the cancel flag of the run is not set.
C3_CompletedOnlyIfNotCancelled ==
    [][\A r \in Runs :
         pc[r] # "logCompleted" /\ pc'[r] = "logCompleted" /\ noFailure
             => ~syncState[r].cancelled]_vars

\* C4: over successive syncs, the cursor of an account never decreases; a new
\* value is a position the running scan fetched, and no candidate position of
\* that scan below it was left unfetched.
C4_CursorMonotonic ==
    [][\A a \in Accounts :
         /\ cursor(a)' >= cursor(a)
         /\ cursor(a)' # cursor(a) =>
              \E r \in Runs :
                  /\ Running(r) /\ account(loc[r]).id = a
                  /\ <<a, cursor(a)'>> \in fetched[r]
                  /\ \A uid \in candidates(r) :
                         uid < cursor(a)' => <<a, uid>> \in fetched[r]]_vars

\* the cursor of B moved twice, to 5 and then to 10, and a later sync runs
C4_Witness ==
    /\ cursor("B") = 10
    /\ \E r \in Runs : <<"B", 5>> \in fetched[r] /\ <<"B", 10>> \in fetched[r]
    /\ pc[1] = "done" /\ pc[MaxRuns] = "fetchEmail"

\* a position of the scan handled, the scan goes on to the next position
nextPosition(r) ==
    /\ pc[r] \in {"fetchEmail", "checkDuplicateInvoice", "uploadToStorage",
                  "insertInvoice", "insertPendingLink", "updateAccountLastUid",
                  "logProgress"}
    /\ pc'[r] = "fetchEmail"
    /\ loc'[r].uid # loc[r].uid

\* C5: (no call failing) when the scan starts the next position, the cursor of
\* the account is the position just handled.
C5_CursorAfterEachPosition ==
    [][\A r \in Runs :
         nextPosition(r) /\ noFailure'
             => cursor(account(loc[r]).id)' = loc[r].uid]_vars

\* the sync of call q ran every scan it started to the end of its candidates
ranThrough(q) ==
    /\ pc[q] = "done" /\ syncLogs[q].status = "completed"
    /\ ~syncState[q].cancelled
    /\ noFailure

\* C6: a scan of an account that follows a sync which scanned the account over
\* the same date range, through all its candidates, finds no candidate.
C6_RerunFindsNothing ==
    \A q, r \in Runs :
        /\ ranThrough(q) /\ pc[r] = "logTotal"
        /\ loc[q].dateFrom = loc[r].dateFrom
        /\ loc[q].accountId \in {"", account(loc[r]).id}
        => loc[r].uids = <<>>

\* the invoice row of the attachment the task is working on
attachmentKey(r) ==
    <<account(loc[r]).id, loc[r].email.messageId, Head(loc[r].attachments)>>

\* C7: no two invoice rows share account, message id and filename; when the
\* attachment at hand already has its row, the task inserts nothing, goes on
\* without an upload and leaves invoicesFound as it is.
C7_DuplicateSkipped ==
    [][/\ \A key \in InvoiceKeys : invoices'[key] <= 1
       /\ \A r \in Runs :
            /\ pc[r] = "checkDuplicateInvoice"
            /\ invoices[attachmentKey(r)] >= 1
            /\ <<pc[r], loc[r]>> # <<pc'[r], loc'[r]>>
            => /\ invoices' = invoices
               /\ inserted' = inserted
               /\ pc'[r] \notin {"uploadToStorage", "insertInvoice"}
               /\ loc'[r].invoicesFound = loc[r].invoicesFound
                  \/ loc'[r].totalInvoices = loc[r].totalInvoices
                                               + loc[r].invoicesFound]_vars

\* the task has found the row of the attachment at hand and skipped it.
C7_Witness ==
    \E r \in Runs :
        /\ pc[r] = "updateAccountLastUid" /\ account(loc[r]).id = "A"
        /\ loc[r].uid = 1 /\ loc[r].invoicesFound = 0
        /\ invoices[<<"A", "m1", "inv.pdf">>] = 1

\* the message is relevant and an active exclude rule of the table matches it
relevantAndExcluded(parsed) ==
    /\ mightContainInvoice(parsed)
    /\ \E k \in 1..Len(SyncRulesTable) :
           /\ SyncRulesTable[k].is_active
           /\ SyncRulesTable[k].rule_type = "exclude"
           /\ ruleMatches(SyncRulesTable[k], parsed)

\* the message fetchEmail is fetching
fetching(r) == Mailbox[account(loc[r]).id][loc[r].uid]

\* the fetch of the run resolves in this step
fetchResolves(r) == pc[r] = "fetchEmail" /\ <<pc[r], loc[r]>> # <<pc'[r], loc'[r]>>

\* the scan goes on to its next position or, at its end, returns
continues(r) ==
    \/ pc'[r] = "fetchEmail" /\ loc'[r].uid = Head(loc[r].uids)
    \/ pc'[r] = "logTotals"

\* the messages of the mailboxes that are relevant and excluded
excludedMessages ==
    {m \in UNION {{<<a, uid>> : uid \in Uids(a)} : a \in Accounts} :
        relevantAndExcluded(Mailbox[m[1]][m[2]])}

\* the invoice keys the attachments of the excluded messages would be stored under
excludedInvoiceKeys ==
    UNION {{<<m[1], Mailbox[m[1]][m[2]].messageId,
              Mailbox[m[1]][m[2]].attachments[k].filename>> :
                k \in DOMAIN Mailbox[m[1]][m[2]].attachments} :
            m \in excludedMessages}

\* the pending links the urls of the excluded messages would be stored as
excludedLinks ==
    UNION {{<<m[1], Mailbox[m[1]][m[2]].urls[k]>> :
                k \in DOMAIN Mailbox[m[1]][m[2]].urls} :
            m \in excludedMessages}

\* C8: a relevant message that an active exclude rule matches is counted in
\* emailsProcessed and the scan goes on without a write to the store; no
\* invoice row and no pending link of such a message exists.
C8_ExcludedCountedNotStored ==
    [][/\ \A r \in Runs :
            fetchResolves(r) /\ <<account(loc[r]).id, loc[r].uid>> \in excludedMessages
            => /\ counted(r)' = counted(r) + 1
               /\ continues(r)
               /\ UNCHANGED <<invoices, pendingLinks, accountsDb, syncLogs>>
       /\ \A key \in excludedInvoiceKeys : invoices'[key] = 0
       /\ \A link \in excludedLinks : link \notin pendingLinks']_vars

\* without any failure, the scan of A has counted messages 1 and 2, message 2
\* being the excluded one, and fetches message 3
C8_Witness ==
    \E r \in Runs :
        /\ pc[r] = "fetchEmail" /\ account(loc[r]).id = "A" /\ loc[r].uid = 3
        /\ loc[r].emailsProcessed = 2
        /\ faults = 0 /\ storeFaults = 0
        /\ <<"A", 2>> \in excludedMessages

\* C9: every fetchEmail call that has resolved is counted; a fetch that
\* resolves null, for a message that is not relevant or after a fetch or
\* parse error, writes nothing to the store and the scan goes on.
C9_EveryFetchCounted ==
    [][\A r \in Runs :
         /\ counted(r)' = fetchCount'[r] - (IF pc'[r] = "fetchEmail" THEN 1 ELSE 0)
         /\ fetchResolves(r) /\ (faults' # faults \/ ~mightContainInvoice(fetching(r)))
            => /\ counted(r)' = counted(r) + 1
               /\ continues(r)
               /\ UNCHANGED <<invoices, pendingLinks, accountsDb, syncLogs>>]_vars

\* the first fetch of A failed and was counted (the store did not fail), and
\* the scan has counted the irrelevant message 3 as well
C9_Witness ==
    \E r \in Runs :
        /\ pc[r] = "logTotals" /\ account(loc[r]).id = "A"
        /\ loc[r].totalEmailsProcessed = 3
        /\ faults = 1 /\ storeFaults = 0
        /\ invoices[<<"A", "m1", "inv.pdf">>] = 0

-----------------------------------------------------------------------------
(* Properties of the life of a run. *)

\* the background task of the call has stopped: processAccounts has returned,
\* or has ended by an error thrown outside its try
Stopped(r) == pc[r] \in {"done", "crashed"}

TerminalStatus == {"completed", "cancelled", "failed"}

\* C11: a run entered in the registry is removed from it whatever happens in
\* its task: once the task has stopped, its id is not a key of activeSyncs.
C11_RegistryEntryRemoved ==
    \A r \in Runs : Stopped(r) => r \notin activeSyncs

\* C12: no run stays in status=running after its task has stopped: the row of
\* a stopped task has status completed, cancelled or failed.
C12_StoppedTaskHasTerminalStatus ==
    \A r \in Runs : Stopped(r) => syncLogs[r].status \in TerminalStatus

\* C13: once the row of a run has a terminal status, no step changes its
\* status or any other of its fields.
C13_TerminalStatusWrittenOnce ==
    [][\A r \in Runs :
         syncLogs[r].status \in TerminalStatus => syncLogs'[r] = syncLogs[r]]_vars

\* the first run ended failed, after a call of the store failed, and a later
\* run has since written its own row up to status=completed
C13_Witness ==
    /\ syncLogs[1].status = "failed" /\ storeFaults > 0
    /\ syncLogs[MaxRuns].status = "completed"
    /\ syncLogs[MaxRuns].emails_processed_so_far > 0

\* connectImap, openInbox or searchEmails of the run rejects in this step
scanRejects(r) ==
    /\ pc[r] \in {"connectImap", "openInbox", "searchEmails"}
    /\ faults' = faults + 1 /\ pc'[r] # pc[r]

\* the call the account loop makes for accounts[i] or, after the last, the
\* final write
loopHead(r, i) ==
    IF i >= Len(loc[r].accounts) THEN "logCompleted"
    ELSE IF syncState[r].cancelled THEN "logCancelled" ELSE "logAccount"

\* C14: with a store that does not fail, when the scan of an account throws
\* the task goes on to record status=error and the error detail on that
\* account, then goes on with the account after it; the row of the run never
\* gets status=failed, and a first run that completed without cancellation
\* has attempted every one of its accounts.
C14_AccountErrorDoesNotFailRun ==
    [][\A r \in Runs :
         /\ scanRejects(r) =>
               /\ pc'[r] = "statusError" /\ loc'[r].err = "transport"
               /\ loc'[r].i = loc[r].i
         /\ pc[r] = "statusError" /\ pc'[r] # pc[r] =>
               /\ accountsDb'[account(loc[r]).id].status = "error"
               /\ accountsDb'[account(loc[r]).id].error_message = "transport"
               /\ loc'[r].i = loc[r].i + 1
               /\ pc'[r] = loopHead(r, loc[r].i + 1)
         /\ syncLogs'[r].status # "failed"
         /\ r = 1 /\ syncLogs'[r].status = "completed" /\ ~syncState'[r].cancelled =>
               \A k \in 1..Len(loc'[r].accounts) :
                   accountsDb'[loc'[r].accounts[k].id].status \in {"connected", "error"}]_vars

\* the connection to A failed, A has status=error with the detail, and the run
\* is fetching from B
C14_Witness ==
    \E r \in Runs :
        /\ pc[r] = "fetchEmail" /\ account(loc[r]).id = "B"
        /\ accountsDb["A"].status = "error"
        /\ accountsDb["A"].error_message = "transport"
        /\ syncLogs[r].status = "running"

\* C15: startSync with an account set that resolves to no account throws and
\* leaves the tables, the registry and the flags as they are; the call has no
\* row and no registry entry and its task never runs.
C15_NoAccountsLeavesSystemUnchanged ==
    [][\A r \in Runs :
         /\ /\ pc[r] = "getEmailAccounts" /\ pc'[r] # pc[r]
            /\ Len(getEmailAccounts(loc[r].accountId)) = 0
            => /\ pc'[r] = "rejected"
               /\ UNCHANGED <<accountsDb, syncLogs, invoices, pendingLinks,
                              activeSyncs, syncState, fetched, fetchCount>>
         /\ pc[r] = "rejected" =>
               /\ pc'[r] = "rejected"
               /\ syncLogs'[r] = NoRow /\ r \notin activeSyncs']_vars

\* after a first sync that ended, a startSync for the id of no account was
\* rejected without any call failing
C15_Witness ==
    /\ pc[1] = "done" /\ syncLogs[1].status = "completed"
    /\ pc[2] = "rejected" /\ loc[2] = NoLocals
    /\ noFailure

\* the task of the run has been started and has not stopped
inFlight(id) ==
    pc[id] \notin {"idle", "getEmailAccounts", "createSyncLog", "rejected",
                   "done", "crashed"}

\* C16: cancelSync(id) returns true exactly when the run id is in flight, and
\* then sets the flag of that run; when it returns false it changes nothing.
C16_CancelReturnsTrueIffInFlight ==
    [][\A id \in Runs :
         CancelSync(id) =>
             /\ cancelSyncReturns(id) <=> inFlight(id)
             /\ cancelSyncReturns(id) => syncState'[id].cancelled
             /\ ~cancelSyncReturns(id) => UNCHANGED vars]_vars

-----------------------------------------------------------------------------
(* Properties of the scan of an account. *)

\* the calls processAccount awaits inside its for statement
ScanLoopCalls ==
    {"fetchEmail", "checkDuplicateInvoice", "uploadToStorage", "insertInvoice",
     "insertPendingLink", "updateAccountLastUid", "logProgress"}

\* the calls processAccount awaits
ScanCalls == {"connectImap", "openInbox", "searchEmails", "logTotal"} \cup ScanLoopCalls

\* C17: a step of the task made inside processAccount, after a call that
\* processAccount awaited, leaves the row of the run as it is.
C17_ScannerLeavesSyncRunUnchanged ==
    [][\A r \in Runs : pc[r] \in ScanCalls => syncLogs'[r] = syncLogs[r]]_vars

\* C18: once the flag of a run is set, the run hands no further position to
\* fetchEmail; the message in flight is finished inside the loop, nothing
\* stored is taken back, and when the scan returns the totals of the task hold
\* every invoice row it inserted and every fetch it made.
C18_NoPositionStartedAfterCancel ==
    [][\A r \in Runs :
         syncState[r].cancelled =>
             /\ fetchCount'[r] = fetchCount[r] /\ fetched'[r] = fetched[r]
             /\ \A key \in InvoiceKeys : invoices'[key] >= invoices[key]
             /\ pendingLinks \subseteq pendingLinks'
             /\ \A a \in Accounts : cursor(a)' >= cursor(a)
             /\ pc[r] \in ScanLoopCalls => pc'[r] \in ScanLoopCalls \cup {"logTotals"}
             /\ pc[r] \in ScanCalls /\ pc'[r] = "logTotals" =>
                    /\ loc'[r].totalInvoices = inserted'[r]
                    /\ loc'[r].totalEmailsProcessed = fetchCount'[r]]_vars

\* the flag was set while message 5 of B was in flight: its two PDFs and its
\* link are stored, the cursor is at 5, message 6 was never fetched and the
\* scan has returned
C18_Witness ==
    \E r \in Runs :
        /\ syncState[r].cancelled /\ pc[r] = "logTotals" /\ account(loc[r]).id = "B"
        /\ <<"B", 5>> \in fetched[r] /\ <<"B", 6>> \notin fetched[r]
        /\ invoices[<<"B", "m5", "a.pdf">>] = 1 /\ invoices[<<"B", "m5", "b.pdf">>] = 1
        /\ <<"B", "http://h/invoice">> \in pendingLinks
        /\ cursor("B") = 5 /\ loc[r].totalInvoices = 2 /\ noFailure

\* C19: outside the scan of an account the task holds no connection that is
\* created or connected and not ended, whichever way the scan was left.
C19_ConnectionEndedWithScan ==
    \A r \in Runs :
        pc[r] \notin ScanCalls => loc[r].imap \notin {"created", "connected"}

\* the scan of an account was left by a rejected connect, select or search
\* and its connection is ended
C19_Witness ==
    \E r \in Runs :
        /\ pc[r] = "statusError" /\ loc[r].err = "transport"
        /\ loc[r].imap = "ended"

\* the upload or the insert of the attachment at hand throws in this step
attachmentFails(r) ==
    /\ pc[r] \in {"uploadToStorage", "insertInvoice"}
    /\ storeFaults' = storeFaults + 1
    /\ <<pc[r], loc[r]>> # <<pc'[r], loc'[r]>>

\* C20: when the upload or the insert of an attachment throws, the task goes
\* on with the next attachment of the same message if there is one, and in
\* any case stays in the scan of the account.
C20_AttachmentFailureDoesNotAbort ==
    [][\A r \in Runs :
         attachmentFails(r) =>
             /\ pc'[r] \in ScanCalls \cup {"logTotals"}
             /\ Len(loc[r].attachments) > 1 =>
                    /\ pc'[r] = "checkDuplicateInvoice"
                    /\ loc'[r].uid = loc[r].uid
                    /\ loc'[r].attachments = Tail(loc[r].attachments)]_vars

-----------------------------------------------------------------------------
(* Properties of the rules, the registry, the order of a scan and progress. *)

\* the messages of the mailboxes that the classifier finds relevant
relevantMessages ==
    {m \in UNION {{<<a, uid>> : uid \in Uids(a)} : a \in Accounts} :
        mightContainInvoice(Mailbox[m[1]][m[2]])}

\* C21: a relevant message that was fetched is skipped exactly when an active
\* rule of type exclude matches it, values compared in lower case; a rule
\* that is inactive or of another type skips nothing, and a skip writes
\* nothing and leaves the rules as they are.
C21_OnlyActiveExcludeRulesSkip ==
    [][\A r \in Runs :
         /\ fetchResolves(r) /\ faults' = faults
         /\ <<account(loc[r]).id, loc[r].uid>> \in relevantMessages
         => /\ continues(r) <=>
                  <<account(loc[r]).id, loc[r].uid>> \in excludedMessages
            /\ continues(r) =>
                  UNCHANGED <<accountsDb, syncLogs, invoices, pendingLinks,
                              activeSyncs, syncState>>
            /\ loc'[r].rules = loc[r].rules]_vars

\* message 1 of A, which the inactive exclude rule and the include rule both
\* match, was not skipped: the task is checking its attachment
C21_Witness ==
    \E r \in Runs :
        /\ pc[r] = "checkDuplicateInvoice" /\ account(loc[r]).id = "A"
        /\ loc[r].uid = 1 /\ noFailure
        /\ ~SyncRulesTable[2].is_active /\ SyncRulesTable[2].rule_type = "exclude"
        /\ ruleMatches(SyncRulesTable[2], Mailbox["A"][1])
        /\ SyncRulesTable[3].is_active /\ SyncRulesTable[3].rule_type # "exclude"
        /\ ruleMatches(SyncRulesTable[3], Mailbox["A"][1])

\* C22: when startSync returns the id of the run, the id is a key of the
\* registry; as long as the task has not stopped, cancelSync(id) returns true
\* and sets the flag, and with the flag set the task starts no account and
\* no fetch at its next check.
C22_RegisteredWhenStartSyncReturns ==
    [][\A r \in Runs :
         /\ pc[r] = "createSyncLog" /\ pc'[r] = "getSyncRules" =>
               r \in activeSyncs' /\ syncLogs'[r].status = "running"
         /\ inFlight(r)' => cancelSyncReturns(r)'
         /\ CancelSync(r) /\ inFlight(r) => syncState'[r].cancelled
         /\ syncState[r].cancelled =>
               /\ pc'[r] = "logAccount" => pc[r] = "logAccount"
               /\ fetchCount'[r] = fetchCount[r]]_vars

\* a cancel made right after startSync returned, while the rules were being
\* loaded, was honoured at the first check: the run ended cancelled before
\* its first account
C22_Witness ==
    \E r \in Runs :
        /\ finalizedCancelled(r) /\ loc[r].i = 0 /\ fetchCount[r] = 0
        /\ syncLogs[r].processed_accounts = 0 /\ noFailure

\* C23: each position a scan hands to fetchEmail lies above the cursor of the
\* account, the one the scan started from and the one persisted now, above
\* the position fetched before it in the scan, and below every position
\* still to come.
C23_AscendingAboveCursor ==
    [][\A r \in Runs :
         fetchCount'[r] = fetchCount[r] + 1 =>
             /\ loc'[r].uid > account(loc'[r]).last_processed_uid
             /\ loc'[r].uid > accountsDb'[account(loc'[r]).id].last_processed_uid
             /\ pc[r] \in ScanLoopCalls => loc'[r].uid > loc[r].uid
             /\ \A k \in 1..Len(loc'[r].uids) : loc'[r].uids[k] > loc'[r].uid]_vars

\* a second sync scans B from the cursor 5 a cancelled sync left: it has
\* fetched 6 and is fetching 7
C23_Witness ==
    /\ pc[MaxRuns] = "fetchEmail" /\ account(loc[MaxRuns]).id = "B"
    /\ account(loc[MaxRuns]).last_processed_uid = 5
    /\ loc[MaxRuns].uid = 7
    /\ fetched[MaxRuns] \cap {<<"B", uid>> : uid \in Uids("B")} = {<<"B", 6>>, <<"B", 7>>}

\* C26: (no call failing) from one write of the row of a run to the next,
\* emails_processed_so_far and total_invoices do not decrease.
C26_ProgressCountersNeverDecrease ==
    [][\A r \in Runs :
         syncLogs[r].status = "running" /\ noFailure' =>
             /\ syncLogs'[r].emails_processed_so_far >= syncLogs[r].emails_processed_so_far
             /\ syncLogs'[r].total_invoices >= syncLogs[r].total_invoices]_vars

\* C24: no two invoice rows share account, message id and filename, also
\* when syncs started by separate startSync calls run at overlapping times.
C24_NoTwoRowsShareKey ==
    \A key \in InvoiceKeys : invoices[key] <= 1

\* C25: the cursor of an account never decreases, also when syncs started by
\* separate startSync calls scan the account at overlapping times.
C25_CursorNeverDecreasesUnderOverlap ==
    [][\A a \in Accounts : cursor(a)' >= cursor(a)]_vars

====
